---- MODULE Spec2Model ----
\* Verification model of cds/modules/maintenance/cli.py: the `videos
\* fix_bucket_conflict` command (deposit bucket re-created from the record
\* bucket) over the tables it reads and writes, and the commands that
\* delegate to the transcoding subsystem and to the workflow engine.
EXTENDS Integers, FiniteSets, Sequences, TLC

\* ------------------------------------------------------------------ bounds
\* Number of ordinary object keys of the record bucket.
MaxKeys == 3
\* Number of invocations of the command.
MaxRuns == 2

\* Number of tasks of a flow.
MaxTasks == 2

Keys == 1..MaxKeys
Runs == 1..MaxRuns

\* Identifiers of the rows the database holds before the first run: the
\* bucket of the record and of the deposit, and the object versions in them.
FixtureIds ==
    [RecordBucket |-> 1, DepositBucket |-> 2,
     DraftMaster |-> 1,     \* master video of the deposit bucket
     DraftOnly |-> 2,       \* file uploaded to the deposit only
     OldVersion |-> 3,      \* older, non-head version of DeletedKey
     DeleteMarker |-> 4,    \* head of DeletedKey, file_id NULL
     DeletedKey |-> 0]

RecordBucket == FixtureIds.RecordBucket
DepositBucket == FixtureIds.DepositBucket

\* Key of the record bucket whose head is a delete marker over an older
\* version, and key that exists in the deposit bucket only.
DeletedKey == FixtureIds.DeletedKey
DraftOnlyKey == MaxKeys + 1

RECID == "recid-1"
DEPID == "depid-1"
REC == "record-uuid"
DEP == "deposit-uuid"

None == 0

\* str(uuid): an injective rendering, kept apart from the uuid itself.
Str(x) == <<"str", x>>

VARIABLES
    files_bucket,        \* table files_bucket: set of [id, locked]
    files_object,        \* table files_object: set of ObjectVersion rows
    files_objecttags,    \* table files_objecttags: set of [version_id, key, value]
    records_buckets,     \* table records_buckets: set of [record_id, bucket_id]
    records_metadata,    \* table records_metadata: uuid -> json document
    pidstore,            \* table pidstore_pid: set of [pid_type, pid_value, object_uuid]
    session,             \* per run: rows added to db.session and not yet committed
    pc,                  \* per run: position in fix_bucket_conflict
    command,             \* per run: the command invoked
    recid,               \* per run: the --recid option
    record,              \* per run: the resolved record (its json, as loaded)
    deposit,             \* per run: the deposit (its json, as loaded)
    deposit_old_bucket,  \* per run: id of deposit.files.bucket at line 156
    new_bucket,          \* per run: id of the snapshot
    rb,                  \* per run: the RecordsBuckets row found at line 161
    master_deposit_obj,  \* per run: version_id found at line 171, or None
    slaves,              \* per run: rows of the query of lines 175-182 still to visit
    result,              \* per run: the pair returned at line 201
    output,              \* per run: what the command printed or raised
    terminals,           \* how many commands may run at the same time
    depid,               \* per run: the --depid option
    transcoding,         \* the calls made to cds.modules.maintenance.subformats
    flow,                \* per run: the flow of line 228 and the depid it is of
    t_index,             \* per run: position of t in flow.tasks (line 230)
    restarted            \* per run: the tasks passed to flow.restart_task

\* What belongs to the other commands: fix_bucket_conflict has no --depid and
\* calls neither the transcoding subsystem nor the workflow engine.
others == <<depid, transcoding, flow, t_index, restarted>>

\* What fix_bucket_conflict never writes.
fixed == <<pidstore, terminals, others>>
dbvars == <<files_bucket, files_object, files_objecttags, records_buckets,
            records_metadata, fixed>>
locals_but_output == <<command, recid, record, deposit, deposit_old_bucket, new_bucket, rb,
                       master_deposit_obj, slaves, result>>
locals == <<locals_but_output, output>>
vars == <<dbvars, session, pc, locals>>

\* The database and the frame of fix_bucket_conflict, which the other
\* commands leave alone.
storage == <<files_bucket, files_object, files_objecttags, records_buckets,
             records_metadata, pidstore, terminals, session>>
frame == <<deposit, deposit_old_bucket, new_bucket, rb, master_deposit_obj, slaves,
           result>>

\* ---------------------------------------------------------- library model
EmptySession == [source |-> None, bucket |-> {}, object |-> {}, tags |-> {}]

\* ObjectVersion.get_by_bucket(bucket): heads that are not delete markers.
get_by_bucket(objects, b) ==
    {o \in objects : o.bucket_id = b /\ o.is_head /\ o.file_id # None}

\* ObjectVersion.query_heads_by_bucket(bucket).
query_heads_by_bucket(objects, b) ==
    {o \in objects : o.bucket_id = b /\ o.is_head}

\* ObjectVersion.get(bucket, key): version_id of the head of key, or None.
ObjectVersionGet(objects, b, key) ==
    LET hs == {o \in objects : o.bucket_id = b /\ o.key = key /\ o.is_head}
    IN  IF hs = {} THEN None ELSE (CHOOSE o \in hs : TRUE).version_id

\* The bucket of the first RecordsBuckets row of an entity (Record.files).
FilesBucket(uuid) ==
    LET rows == {x \in records_buckets : x.record_id = uuid}
    IN  IF rows = {} THEN None
        ELSE (CHOOSE x \in rows : \A y \in rows : x.bucket_id <= y.bucket_id).bucket_id

\* FilesIterator.dumps(): one entry per head file of the bucket, with the
\* context_type its tags give it.
dumps(objects, tags, b) ==
    {[key |-> o.key, version_id |-> Str(o.version_id), bucket |-> Str(b),
      context_type |->
          IF \E t \in tags : t.version_id = o.version_id /\ t.key = "context_type"
          THEN (CHOOSE t \in tags :
                    t.version_id = o.version_id /\ t.key = "context_type").value
          ELSE ""] : o \in get_by_bucket(objects, b)}

\* CDSVideosFilesIterator.get_master_video_file(record): key of the entry of
\* record['_files'] marked as the master video, or None ({}).
get_master_video_file(json) ==
    LET ms == {f \in json["_files"] : f.context_type = "master"}
    IN  IF ms = {} THEN None ELSE (CHOOSE f \in ms : TRUE).key

\* What a pid lookup yields when the pid does not exist.
NoUuid == ""

\* record_resolver.resolve(recid): uuid of the record, or NoUuid (not found).
resolve(pids, value) ==
    LET ps == {p \in pids : p.pid_type = "recid" /\ p.pid_value = value}
    IN  IF ps = {} THEN NoUuid ELSE (CHOOSE p \in ps : TRUE).object_uuid

\* record.depid.object_uuid: uuid of the deposit named by record['_deposit'],
\* or NoUuid (PIDDoesNotExistError).
depid_object_uuid(pids, json) ==
    LET ps == {p \in pids : p.pid_type = "depid" /\ p.pid_value = json["_deposit"].id}
    IN  IF ps = {} THEN NoUuid ELSE (CHOOSE p \in ps : TRUE).object_uuid

\* ------------------------------------------------------------------- Init
DraftMasterId == FixtureIds.DraftMaster
DraftOnlyId == FixtureIds.DraftOnly
OldVersionId == FixtureIds.OldVersion
DeleteMarkerId == FixtureIds.DeleteMarker
\* Version id of the head of key k of the record bucket.
KeyVersionId(k) == DeleteMarkerId + k

Kinds == {"none", "plain", "slave"}

\* The fixtures: what each key of the record bucket holds, which key is the
\* master video (None: the record has none), what the slaves' master tags
\* name, whether deposit and record share one bucket, whether the record's
\* copy of _deposit and the slaves' tags have drifted, and whether the deposit exists at all.
KindRank(kind) == CASE kind = "plain" -> 1 [] kind = "slave" -> 2 [] kind = "none" -> 3

\* Keys are interchangeable, so the plain files come first, then the slaves,
\* and the master video, if any, is the first key.
Fixtures ==
    {f \in [kind : [Keys -> Kinds], master : {None, 1},
            shared : BOOLEAN, drift : BOOLEAN, draft : BOOLEAN] :
        /\ \A j, k \in Keys : j < k => KindRank(f.kind[j]) <= KindRank(f.kind[k])
        /\ f.master # None => f.kind[f.master] = "plain"
        /\ ~f.draft => /\ f.kind = [k \in Keys |-> "plain"] /\ f.master = 1
                       /\ ~f.shared /\ ~f.drift}

\* What the master tags of the record bucket name before the run: the master
\* of the deposit bucket the record was published from, or (drift) an old
\* version in the record bucket.
StaleMaster(f) == IF f.drift THEN OldVersionId ELSE DraftMasterId

Object(v, b, k, file, head) ==
    [version_id |-> v, bucket_id |-> b, key |-> k, file_id |-> file, is_head |-> head]

Tag(v, k, val) == [version_id |-> v, key |-> k, value |-> val]

FixtureObjects(f) ==
    {Object(KeyVersionId(k), RecordBucket, k, KeyVersionId(k), TRUE) :
        k \in {k \in Keys : f.kind[k] # "none"}}
    \cup {Object(OldVersionId, RecordBucket, DeletedKey, OldVersionId, FALSE),
          Object(DeleteMarkerId, RecordBucket, DeletedKey, None, TRUE)}
    \cup (IF f.draft /\ ~f.shared
          THEN {Object(DraftMasterId, DepositBucket, 1, DraftMasterId, TRUE),
                Object(DraftOnlyId, DepositBucket, DraftOnlyKey, DraftOnlyId, TRUE)}
          ELSE {})

FixtureTags(f) ==
    {Tag(KeyVersionId(k), "master", Str(StaleMaster(f))) :
        k \in {k \in Keys : f.kind[k] = "slave"}}
    \cup (IF f.master # None
          THEN {Tag(KeyVersionId(f.master), "context_type", "master")} ELSE {})
    \cup (IF f.draft /\ ~f.shared
          THEN {Tag(DraftMasterId, "context_type", "master"),
                Tag(DraftOnlyId, "master", Str(DraftMasterId))}
          ELSE {})

FixtureJson(f, uuid) ==
    LET b == IF uuid = REC \/ f.shared THEN RecordBucket ELSE DepositBucket
    IN  ("_buckets" :> [deposit |-> Str(IF f.shared THEN RecordBucket ELSE DepositBucket),
                        record |-> Str(RecordBucket)])
        @@ ("_deposit" :> [id |-> DEPID,
                          status |-> IF uuid = REC /\ f.drift THEN "published"
                                     ELSE "draft"])
        @@ ("_files" :> dumps(FixtureObjects(f), FixtureTags(f), b))

InitFixture(f) ==
    /\ files_bucket = {[id |-> RecordBucket, locked |-> TRUE]}
           \cup (IF f.draft /\ ~f.shared
                 THEN {[id |-> DepositBucket, locked |-> FALSE]} ELSE {})
    /\ files_object = FixtureObjects(f)
    /\ files_objecttags = FixtureTags(f)
    /\ records_buckets = {[record_id |-> REC, bucket_id |-> RecordBucket]}
           \cup (IF f.draft
                 THEN {[record_id |-> DEP,
                        bucket_id |-> IF f.shared THEN RecordBucket ELSE DepositBucket]}
                 ELSE {})
    /\ records_metadata =
           [u \in (IF f.draft THEN {REC, DEP} ELSE {REC}) |-> FixtureJson(f, u)]
    /\ pidstore = {[pid_type |-> "recid", pid_value |-> RECID, object_uuid |-> REC]}
           \cup (IF f.draft
                 THEN {[pid_type |-> "depid", pid_value |-> DEPID, object_uuid |-> DEP]}
                 ELSE {})

\* No command has been invoked yet.
NoRuns ==
    /\ session = [r \in Runs |-> EmptySession]
    /\ pc = [r \in Runs |-> "idle"]
    /\ command = [r \in Runs |-> ""]
    /\ recid = [r \in Runs |-> ""]
    /\ record = [r \in Runs |-> <<>>]
    /\ deposit = [r \in Runs |-> <<>>]
    /\ deposit_old_bucket = [r \in Runs |-> None]
    /\ new_bucket = [r \in Runs |-> None]
    /\ rb = [r \in Runs |-> None]
    /\ master_deposit_obj = [r \in Runs |-> None]
    /\ slaves = [r \in Runs |-> {}]
    /\ result = [r \in Runs |-> <<>>]
    /\ output = [r \in Runs |-> <<>>]
    /\ depid = [r \in Runs |-> ""]
    /\ transcoding = <<>>
    /\ flow = [r \in Runs |-> <<>>]
    /\ t_index = [r \in Runs |-> 0]
    /\ restarted = [r \in Runs |-> <<>>]

Setup == (\E f \in Fixtures : InitFixture(f)) /\ NoRuns

\* ---------------------------------------------------------------- actions
Terminated(r) == pc[r] \in {"done", "failed", "crashed"}
Running(r) == pc[r] \notin {"idle", "done", "failed", "crashed"}

\* Runs are invoked in the order of their numbers, at most `terminals` of them
\* at a time.
Invocable(r) ==
    /\ pc[r] = "idle"
    /\ \A q \in Runs : q < r => pc[q] # "idle"
    /\ Cardinality({q \in Runs : Running(q)}) < terminals

\* The values an operator may pass as --recid: omitted, the record's id, an
\* id that names nothing.
RecidOptions == {"", RECID, "recid-404"}

Max(S) == CHOOSE x \in S : \A y \in S : y <= x

\* uuid4(): an id that no row, committed or pending, carries.
NewBucketId ==
    1 + Max({b.id : b \in files_bucket}
            \cup {b.id : b \in UNION {session[q].bucket : q \in Runs}})

NewVersionId ==
    1 + Max({o.version_id : o \in files_object}
            \cup {o.version_id : o \in UNION {session[q].object : q \in Runs}})

\* The run ends without finishing: its session is rolled back and its frame
\* is gone.  What it was working on is kept for reference: the old bucket,
\* and the new one if its snapshot had been committed.
Abandon(r, state, error) ==
    /\ pc' = [pc EXCEPT ![r] = state]
    /\ output' = [output EXCEPT ![r] = error]
    /\ session' = [session EXCEPT ![r] = EmptySession]
    /\ new_bucket' = [new_bucket EXCEPT ![r] =
           IF pc[r] \in {"idle", "snapshot", "copying"} THEN None ELSE @]
    /\ rb' = [rb EXCEPT ![r] = None]
    /\ master_deposit_obj' = [master_deposit_obj EXCEPT ![r] = None]
    /\ slaves' = [slaves EXCEPT ![r] = {}]
    /\ UNCHANGED <<dbvars, deposit_old_bucket, result>>

Raise(r, error) == Abandon(r, "failed", <<error>>)

\* Lines 203-204: no --recid.
UsageError(r) ==
    /\ Invocable(r)
    /\ \E value \in RecidOptions :
        /\ value = ""
        /\ recid' = [recid EXCEPT ![r] = value]
        /\ command' = [command EXCEPT ![r] = "fix_bucket_conflict"]
    /\ Raise(r, "ClickException: Missing option \"--recid\"")
    /\ UNCHANGED <<record, deposit>>

\* Line 206: the resolver finds no record.
ResolveFails(r) ==
    /\ Invocable(r)
    /\ \E value \in RecidOptions :
        /\ value # ""
        /\ resolve(pidstore, value) = NoUuid
        /\ recid' = [recid EXCEPT ![r] = value]
        /\ command' = [command EXCEPT ![r] = "fix_bucket_conflict"]
    /\ Raise(r, "PIDDoesNotExistError")
    /\ UNCHANGED <<record, deposit>>

\* DepositMissing with the snapshot of lines 158-160 taken before line 155
\* looks for the deposit.
DepositMissing_AfterSnapshot(r) ==
    /\ Invocable(r)
    /\ \E value \in RecidOptions :
        /\ value # ""
        /\ resolve(pidstore, value) # NoUuid
        /\ depid_object_uuid(pidstore, records_metadata[resolve(pidstore, value)]) = NoUuid
        /\ recid' = [recid EXCEPT ![r] = value]
        /\ command' = [command EXCEPT ![r] = "fix_bucket_conflict"]
    /\ pc' = [pc EXCEPT ![r] = "failed"]
    /\ output' = [output EXCEPT ![r] = <<"PIDDoesNotExistError">>]
    /\ files_bucket' = files_bucket \cup {[id |-> NewBucketId, locked |-> FALSE]}
    /\ UNCHANGED <<files_object, files_objecttags, records_buckets, records_metadata,
                   fixed, session, record, deposit, deposit_old_bucket, new_bucket,
                   rb, master_deposit_obj, slaves, result>>

\* Lines 206, 155: the record resolves and its deposit does not.
DepositMissing(r) ==
    /\ Invocable(r)
    /\ \E value \in RecidOptions :
        /\ value # ""
        /\ resolve(pidstore, value) # NoUuid
        /\ depid_object_uuid(pidstore, records_metadata[resolve(pidstore, value)]) = NoUuid
        /\ recid' = [recid EXCEPT ![r] = value]
        /\ command' = [command EXCEPT ![r] = "fix_bucket_conflict"]
    /\ Raise(r, "PIDDoesNotExistError")
    /\ UNCHANGED <<record, deposit>>

\* Lines 203-207, 155-156: record and deposit are loaded, the deposit's bucket
\* is read.
Resolve(r) ==
    /\ Invocable(r)
    /\ \E value \in RecidOptions :
        /\ value # ""
        /\ resolve(pidstore, value) # NoUuid
        /\ LET uuid == resolve(pidstore, value)
               dep == depid_object_uuid(pidstore, records_metadata[uuid])
           IN  /\ dep # NoUuid
               /\ FilesBucket(dep) # None
               /\ recid' = [recid EXCEPT ![r] = value]
               /\ command' = [command EXCEPT ![r] = "fix_bucket_conflict"]
               /\ record' = [record EXCEPT ![r] = records_metadata[uuid]]
               /\ deposit' = [deposit EXCEPT ![r] = records_metadata[dep]]
               /\ deposit_old_bucket' = [deposit_old_bucket EXCEPT ![r] = FilesBucket(dep)]
    /\ pc' = [pc EXCEPT ![r] = "snapshot"]
    /\ UNCHANGED <<dbvars, session, new_bucket, rb, master_deposit_obj, slaves,
                   result, output>>

\* SnapshotBegin that snapshots the deposit's bucket instead of the record's.
SnapshotBegin_OfDeposit(r) ==
    /\ pc[r] = "snapshot"
    /\ deposit_old_bucket[r] \in {b.id : b \in files_bucket}
    /\ new_bucket' = [new_bucket EXCEPT ![r] = NewBucketId]
    /\ session' = [session EXCEPT ![r] =
           [source |-> deposit_old_bucket[r],
            bucket |-> {[id |-> NewBucketId, locked |-> FALSE]},
            object |-> {}, tags |-> {}]]
    /\ pc' = [pc EXCEPT ![r] = "copying"]
    /\ UNCHANGED <<dbvars, command, recid, record, deposit, deposit_old_bucket, rb,
                   master_deposit_obj, slaves, result, output>>

\* Line 158, Bucket.snapshot(): a new Bucket row is added to the session.
SnapshotBegin(r) ==
    /\ pc[r] = "snapshot"
    /\ FilesBucket(REC) \in {b.id : b \in files_bucket}
    /\ new_bucket' = [new_bucket EXCEPT ![r] = NewBucketId]
    /\ session' = [session EXCEPT ![r] =
           [source |-> FilesBucket(REC),
            bucket |-> {[id |-> NewBucketId, locked |-> FALSE]},
            object |-> {}, tags |-> {}]]
    /\ pc' = [pc EXCEPT ![r] = "copying"]
    /\ UNCHANGED <<dbvars, command, recid, record, deposit, deposit_old_bucket, rb,
                   master_deposit_obj, slaves, result, output>>

\* Objects of the source that Bucket.snapshot() has still to copy.
ToCopy(r) ==
    {o \in get_by_bucket(files_object, session[r].source) :
        \A c \in session[r].object : c.key # o.key}

\* Line 158, one o.copy(bucket=bucket) of Bucket.snapshot(), in key order: a
\* new head version with the same key and file, and copies of its tags.
SnapshotCopy(r) ==
    /\ pc[r] = "copying"
    /\ ToCopy(r) # {}
    /\ LET o == CHOOSE x \in ToCopy(r) : \A y \in ToCopy(r) : x.key <= y.key
       IN  session' = [session EXCEPT
               ![r].object = @ \cup {Object(NewVersionId, new_bucket[r], o.key,
                                            o.file_id, TRUE)},
               ![r].tags = @ \cup {Tag(NewVersionId, t.key, t.value) :
                                    t \in {t \in files_objecttags :
                                              t.version_id = o.version_id}}]
    /\ UNCHANGED <<dbvars, pc, locals>>

\* Line 158: the snapshot raises (source unreadable, copy not storable).
SnapshotFails(r) ==
    /\ pc[r] = "copying"
    /\ Raise(r, "snapshot failed")
    /\ UNCHANGED <<command, recid, record, deposit>>

\* SnapshotCommit that does not wait for the last copy: the commit of line
\* 160 is reached while objects are still to be copied.
SnapshotCommit_Early(r) ==
    /\ pc[r] = "copying"
    /\ LET src == CHOOSE b \in files_bucket : b.id = session[r].source
           snap == {[b EXCEPT !.locked = src.locked] : b \in session[r].bucket}
       IN  files_bucket' = files_bucket \cup {[b EXCEPT !.locked = FALSE] : b \in snap}
    /\ files_object' = files_object \cup session[r].object
    /\ files_objecttags' = files_objecttags \cup session[r].tags
    /\ session' = [session EXCEPT ![r] = EmptySession]
    /\ pc' = [pc EXCEPT ![r] = "query"]
    /\ UNCHANGED <<records_buckets, records_metadata, fixed, locals>>

\* SnapshotCommit with lines 189-191 moved before line 160: the old bucket is
\* removed in the commit that makes the snapshot durable.
SnapshotCommit_RemovesOldBucket(r) ==
    /\ pc[r] = "copying"
    /\ ToCopy(r) = {}
    /\ LET src == CHOOSE b \in files_bucket : b.id = session[r].source
           snap == {[b EXCEPT !.locked = FALSE] : b \in session[r].bucket}
           gone == {o \in files_object : o.bucket_id = deposit_old_bucket[r]}
       IN  /\ files_bucket' =
                  {b \in files_bucket : b.id # deposit_old_bucket[r]} \cup snap
           /\ files_object' = (files_object \ gone) \cup session[r].object
           /\ files_objecttags' =
                  {t \in files_objecttags : \A o \in gone : t.version_id # o.version_id}
                  \cup session[r].tags
    /\ session' = [session EXCEPT ![r] = EmptySession]
    /\ pc' = [pc EXCEPT ![r] = "query"]
    /\ UNCHANGED <<records_buckets, records_metadata, fixed, locals>>

\* SnapshotCommit without line 159: the snapshot keeps the lock flag it took
\* from its source.
SnapshotCommit_KeepsLock(r) ==
    /\ pc[r] = "copying"
    /\ ToCopy(r) = {}
    /\ LET src == CHOOSE b \in files_bucket : b.id = session[r].source
           snap == {[b EXCEPT !.locked = src.locked] : b \in session[r].bucket}
       IN  files_bucket' = files_bucket \cup snap
    /\ files_object' = files_object \cup session[r].object
    /\ files_objecttags' = files_objecttags \cup session[r].tags
    /\ session' = [session EXCEPT ![r] = EmptySession]
    /\ pc' = [pc EXCEPT ![r] = "query"]
    /\ UNCHANGED <<records_buckets, records_metadata, fixed, locals>>

\* Lines 158-160: the snapshot takes the source's lock flag, line 159 clears
\* it, and the commit makes bucket, objects and tags durable.
SnapshotCommit(r) ==
    /\ pc[r] = "copying"
    /\ ToCopy(r) = {}
    /\ LET src == CHOOSE b \in files_bucket : b.id = session[r].source
           snap == {[b EXCEPT !.locked = src.locked] : b \in session[r].bucket}
       IN  files_bucket' = files_bucket \cup {[b EXCEPT !.locked = FALSE] : b \in snap}
    /\ files_object' = files_object \cup session[r].object
    /\ files_objecttags' = files_objecttags \cup session[r].tags
    /\ session' = [session EXCEPT ![r] = EmptySession]
    /\ pc' = [pc EXCEPT ![r] = "query"]
    /\ UNCHANGED <<records_buckets, records_metadata, fixed, locals>>

\* RowsOfOldBucket with the row looked up by entity: the rows of the deposit.
RowsOfOldBucket_ByEntity(r) == {x \in records_buckets : x.record_id = DEP}

\* Rows of records_buckets that reference the deposit's old bucket.
RowsOfOldBucket(r) == {x \in records_buckets : x.bucket_id = deposit_old_bucket[r]}

\* RepointQuery with .first() in place of .one(): any row that references the
\* old bucket is taken.
RepointQuery_First(r) ==
    /\ pc[r] = "query"
    /\ \E x \in RowsOfOldBucket(r) : rb' = [rb EXCEPT ![r] = x]
    /\ pc' = [pc EXCEPT ![r] = "repoint"]
    /\ UNCHANGED <<dbvars, session, command, recid, record, deposit, deposit_old_bucket,
                   new_bucket, master_deposit_obj, slaves, result, output>>

\* Lines 161-163: the query finds exactly one row.
RepointQuery(r) ==
    /\ pc[r] = "query"
    /\ Cardinality(RowsOfOldBucket(r)) = 1
    /\ rb' = [rb EXCEPT ![r] = CHOOSE x \in RowsOfOldBucket(r) : TRUE]
    /\ pc' = [pc EXCEPT ![r] = "repoint"]
    /\ UNCHANGED <<dbvars, session, command, recid, record, deposit, deposit_old_bucket,
                   new_bucket, master_deposit_obj, slaves, result, output>>

\* Lines 161-163: .one() raises, more than one row references the bucket.
RepointQueryFails(r) ==
    /\ pc[r] = "query"
    /\ Cardinality(RowsOfOldBucket(r)) > 1
    /\ Raise(r, "MultipleResultsFound")
    /\ UNCHANGED <<command, recid, record, deposit>>

\* RepointCommit that adds a row for the new bucket and leaves the old one.
RepointCommit_AddsRow(r) ==
    /\ pc[r] = "repoint"
    /\ rb[r] \in records_buckets
    /\ records_buckets' = records_buckets
                          \cup {[rb[r] EXCEPT !.bucket_id = new_bucket[r]]}
    /\ pc' = [pc EXCEPT ![r] = "locate"]
    /\ UNCHANGED <<files_bucket, files_object, files_objecttags, records_metadata,
                   fixed, session, locals>>

\* Lines 164-166: the row found is pointed at the new bucket and committed.
RepointCommit(r) ==
    /\ pc[r] = "repoint"
    /\ rb[r] \in records_buckets
    /\ records_buckets' = (records_buckets \ {rb[r]})
                          \cup {[rb[r] EXCEPT !.bucket_id = new_bucket[r]]}
    /\ pc' = [pc EXCEPT ![r] = "locate"]
    /\ UNCHANGED <<files_bucket, files_object, files_objecttags, records_metadata,
                   fixed, session, locals>>

\* SlaveQuery without the join on the tags (lines 177, 180): every head of
\* the new bucket that has a file.
SlaveQuery_AllFiles(r) ==
    {o.version_id : o \in
        {o \in query_heads_by_bucket(files_object, new_bucket[r]) : o.file_id # None}}

\* The rows the loop of lines 175-182 iterates: heads of the new bucket that
\* have a file and a tag with key 'master'.
SlaveQuery(r) ==
    {o.version_id : o \in
        {o \in query_heads_by_bucket(files_object, new_bucket[r]) :
            /\ o.file_id # None
            /\ \E t \in files_objecttags :
                   t.version_id = o.version_id /\ t.key = "master"}}

\* Lines 169-170: the record has no master video file; the tags are left.
NoMasterFile(r) ==
    /\ pc[r] = "locate"
    /\ new_bucket[r] \in {b.id : b \in files_bucket}
    /\ get_master_video_file(record[r]) = None
    /\ pc' = [pc EXCEPT ![r] = "release"]
    /\ UNCHANGED <<dbvars, session, locals>>

\* LocateMaster with the master looked up in the record's bucket instead of
\* the new one.
LocateMaster_InRecordBucket(r) ==
    /\ pc[r] = "locate"
    /\ new_bucket[r] \in {b.id : b \in files_bucket}
    /\ get_master_video_file(record[r]) # None
    /\ master_deposit_obj' = [master_deposit_obj EXCEPT ![r] =
           ObjectVersionGet(files_object, FilesBucket(REC),
                            get_master_video_file(record[r]))]
    /\ slaves' = [slaves EXCEPT ![r] = SlaveQuery(r)]
    /\ pc' = [pc EXCEPT ![r] = IF SlaveQuery(r) = {} THEN "release" ELSE "loop"]
    /\ UNCHANGED <<dbvars, session, command, recid, record, deposit, deposit_old_bucket,
                   new_bucket, rb, result, output>>

\* Lines 169-182: the master object of the new bucket is looked up and the
\* slaves are queried.
LocateMaster(r) ==
    /\ pc[r] = "locate"
    /\ new_bucket[r] \in {b.id : b \in files_bucket}
    /\ get_master_video_file(record[r]) # None
    /\ master_deposit_obj' = [master_deposit_obj EXCEPT ![r] =
           ObjectVersionGet(files_object, new_bucket[r],
                            get_master_video_file(record[r]))]
    /\ slaves' = [slaves EXCEPT ![r] = SlaveQuery(r)]
    /\ pc' = [pc EXCEPT ![r] = IF SlaveQuery(r) = {} THEN "release" ELSE "loop"]
    /\ UNCHANGED <<dbvars, session, command, recid, record, deposit, deposit_old_bucket,
                   new_bucket, rb, result, output>>

\* ObjectVersionTag.create_or_update(object_version, key, value).
create_or_update(tags, version_id, key, value) ==
    {t \in tags : ~(t.version_id = version_id /\ t.key = key)}
    \cup {Tag(version_id, key, value)}

\* PropagateOne with the commit of line 187 after the loop: every slave gets
\* the master's version id and all of them are committed together.
PropagateOne_AllAtOnce(r) ==
    /\ pc[r] = "loop"
    /\ master_deposit_obj[r] # None
    /\ \A slave \in slaves[r] : \E o \in files_object : o.version_id = slave
    /\ files_objecttags' =
           {t \in files_objecttags : ~(t.version_id \in slaves[r] /\ t.key = "master")}
           \cup {Tag(slave, "master", Str(master_deposit_obj[r])) : slave \in slaves[r]}
    /\ slaves' = [slaves EXCEPT ![r] = {}]
    /\ pc' = [pc EXCEPT ![r] = "release"]
    /\ UNCHANGED <<files_bucket, files_object, records_buckets, records_metadata,
                   fixed, session, command, recid, record, deposit, deposit_old_bucket,
                   new_bucket, rb, master_deposit_obj, result, output>>

\* Lines 183-187: one slave gets the master's version id and is committed.
PropagateOne(r) ==
    /\ pc[r] = "loop"
    /\ master_deposit_obj[r] # None
    /\ \E slave \in slaves[r] :
        /\ \E o \in files_object : o.version_id = slave
        /\ files_objecttags' = create_or_update(files_objecttags, slave, "master",
                                                Str(master_deposit_obj[r]))
        /\ slaves' = [slaves EXCEPT ![r] = @ \ {slave}]
        /\ pc' = [pc EXCEPT ![r] = IF slaves[r] = {slave} THEN "release" ELSE "loop"]
    /\ UNCHANGED <<files_bucket, files_object, records_buckets, records_metadata,
                   fixed, session, command, recid, record, deposit, deposit_old_bucket,
                   new_bucket, rb, master_deposit_obj, result, output>>

\* Bucket.remove(): the bucket, its object versions and their tags are deleted.
RemovedObjects(b) == {o \in files_object : o.bucket_id = b}

\* Finish without line 194: the record's document keeps the old bucket id.
Finish_RecordNotUpdated(r) ==
    /\ pc[r] = "release"
    /\ deposit_old_bucket[r] \in {b.id : b \in files_bucket}
    /\ new_bucket[r] \in {b.id : b \in files_bucket}
    /\ RowsOfOldBucket(r) = {}
    /\ LET old == deposit_old_bucket[r]
           new == new_bucket[r]
           rec_uuid == resolve(pidstore, recid[r])
           dep_uuid == depid_object_uuid(pidstore, record[r])
           objects == files_object \ RemovedObjects(old)
           tags == {t \in files_objecttags :
                       \A o \in RemovedObjects(old) : t.version_id # o.version_id}
           dep1 == [deposit[r] EXCEPT !["_buckets"].deposit = Str(new)]
           rec2 == [record[r] EXCEPT !["_deposit"] = dep1["_deposit"]]
           dep2 == [dep1 EXCEPT !["_files"] = dumps(objects, tags, FilesBucket(dep_uuid))]
       IN  /\ files_bucket' = {b \in files_bucket : b.id # old}
           /\ files_object' = objects
           /\ files_objecttags' = tags
           /\ deposit' = [deposit EXCEPT ![r] = dep2]
           /\ record' = [record EXCEPT ![r] = rec2]
           /\ records_metadata' = [records_metadata EXCEPT ![dep_uuid] = dep2,
                                                           ![rec_uuid] = rec2]
           /\ result' = [result EXCEPT ![r] = <<old, new>>]
           /\ output' = [output EXCEPT ![r] =
                  <<"Deposit bucket re-created from record bucket.", Str(old), Str(new)>>]
    /\ pc' = [pc EXCEPT ![r] = "done"]
    /\ UNCHANGED <<records_buckets, fixed, session, command, recid, deposit_old_bucket,
                   new_bucket, rb, master_deposit_obj, slaves>>

\* Finish without Bucket.remove(): the old bucket is unlocked and left.
Finish_OldBucketKept(r) ==
    /\ pc[r] = "release"
    /\ deposit_old_bucket[r] \in {b.id : b \in files_bucket}
    /\ new_bucket[r] \in {b.id : b \in files_bucket}
    /\ RowsOfOldBucket(r) = {}
    /\ LET old == deposit_old_bucket[r]
           new == new_bucket[r]
           rec_uuid == resolve(pidstore, recid[r])
           dep_uuid == depid_object_uuid(pidstore, record[r])
           dep1 == [deposit[r] EXCEPT !["_buckets"].deposit = Str(new)]
           rec1 == [record[r] EXCEPT !["_buckets"].deposit = Str(new)]
           rec2 == [rec1 EXCEPT !["_deposit"] = dep1["_deposit"]]
           dep2 == [dep1 EXCEPT !["_files"] =
                       dumps(files_object, files_objecttags, FilesBucket(dep_uuid))]
       IN  /\ files_bucket' = {IF b.id = old THEN [b EXCEPT !.locked = FALSE] ELSE b :
                                  b \in files_bucket}
           /\ deposit' = [deposit EXCEPT ![r] = dep2]
           /\ record' = [record EXCEPT ![r] = rec2]
           /\ records_metadata' = [records_metadata EXCEPT ![dep_uuid] = dep2,
                                                           ![rec_uuid] = rec2]
           /\ result' = [result EXCEPT ![r] = <<old, new>>]
           /\ output' = [output EXCEPT ![r] =
                  <<"Deposit bucket re-created from record bucket.", Str(old), Str(new)>>]
    /\ pc' = [pc EXCEPT ![r] = "done"]
    /\ UNCHANGED <<files_object, files_objecttags, records_buckets, fixed, session,
                   command, recid, deposit_old_bucket, new_bucket, rb, master_deposit_obj,
                   slaves>>

\* Finish with a commit right after Bucket.remove() and an exception raised
\* by deposit.commit(): the removal is durable, the documents are not updated.
Finish_RemoveCommittedFirst(r) ==
    /\ pc[r] = "release"
    /\ deposit_old_bucket[r] \in {b.id : b \in files_bucket}
    /\ new_bucket[r] \in {b.id : b \in files_bucket}
    /\ RowsOfOldBucket(r) = {}
    /\ LET old == deposit_old_bucket[r]
       IN  /\ files_bucket' = {b \in files_bucket : b.id # old}
           /\ files_object' = files_object \ RemovedObjects(old)
           /\ files_objecttags' =
                  {t \in files_objecttags :
                      \A o \in RemovedObjects(old) : t.version_id # o.version_id}
    /\ pc' = [pc EXCEPT ![r] = "failed"]
    /\ output' = [output EXCEPT ![r] = <<"ValidationError">>]
    /\ UNCHANGED <<records_buckets, records_metadata, fixed, session, locals_but_output>>

\* Lines 189-212: the old bucket is removed, both documents are updated, all
\* of it is committed at line 199, and the two ids are returned and printed.
Finish(r) ==
    /\ pc[r] = "release"
    /\ deposit_old_bucket[r] \in {b.id : b \in files_bucket}
    /\ new_bucket[r] \in {b.id : b \in files_bucket}
    /\ RowsOfOldBucket(r) = {}
    /\ LET old == deposit_old_bucket[r]
           new == new_bucket[r]
           rec_uuid == resolve(pidstore, recid[r])
           dep_uuid == depid_object_uuid(pidstore, record[r])
           objects == files_object \ RemovedObjects(old)
           tags == {t \in files_objecttags :
                       \A o \in RemovedObjects(old) : t.version_id # o.version_id}
           dep1 == [deposit[r] EXCEPT !["_buckets"].deposit = Str(new)]
           rec1 == [record[r] EXCEPT !["_buckets"].deposit = Str(new)]
           rec2 == [rec1 EXCEPT !["_deposit"] = dep1["_deposit"]]
           dep2 == [dep1 EXCEPT !["_files"] = dumps(objects, tags, FilesBucket(dep_uuid))]
       IN  /\ files_bucket' = {b \in files_bucket : b.id # old}
           /\ files_object' = objects
           /\ files_objecttags' = tags
           /\ deposit' = [deposit EXCEPT ![r] = dep2]
           /\ record' = [record EXCEPT ![r] = rec2]
           /\ records_metadata' = [records_metadata EXCEPT ![dep_uuid] = dep2,
                                                           ![rec_uuid] = rec2]
           /\ result' = [result EXCEPT ![r] = <<old, new>>]
           /\ output' = [output EXCEPT ![r] =
                  <<"Deposit bucket re-created from record bucket.", Str(old), Str(new)>>]
    /\ pc' = [pc EXCEPT ![r] = "done"]
    /\ UNCHANGED <<records_buckets, fixed, session, command, recid, deposit_old_bucket,
                   new_bucket, rb, master_deposit_obj, slaves>>

\* The process dies in the middle of a run: what the session holds is lost,
\* what was committed stays.
Crash(r) ==
    /\ Running(r)
    /\ Abandon(r, "crashed", <<>>)
    /\ UNCHANGED <<command, recid, record, deposit>>

\* A run touches a row that a concurrent run has changed or deleted: the row
\* of line 161 is gone (NoResultFound), the UPDATE of line 166 matches no
\* row (StaleDataError), or the new bucket or a slave no longer exists.
ConcurrentModification(r) ==
    /\ \/ pc[r] = "query" /\ RowsOfOldBucket(r) = {}
       \/ pc[r] = "repoint" /\ rb[r] \notin records_buckets
       \/ pc[r] \in {"locate", "release"}
              /\ new_bucket[r] \notin {b.id : b \in files_bucket}
       \/ pc[r] = "loop"
              /\ \E slave \in slaves[r] :
                     \A o \in files_object : o.version_id # slave
    /\ Raise(r, IF pc[r] = "query" THEN "NoResultFound" ELSE "StaleDataError")
    /\ UNCHANGED <<command, recid, record, deposit>>

Step(r) ==
    \/ SnapshotBegin(r) \/ SnapshotCopy(r) \/ SnapshotFails(r) \/ SnapshotCommit(r)
    \/ RepointQuery(r) \/ RepointQueryFails(r) \/ RepointCommit(r)
    \/ NoMasterFile(r) \/ LocateMaster(r) \/ PropagateOne(r)
    \/ Finish(r) \/ Crash(r)

Invoke(r) == UsageError(r) \/ ResolveFails(r) \/ DepositMissing(r) \/ Resolve(r)

Next == \E r \in Runs : Invoke(r) \/ Step(r)

\* One operator: a command is invoked when no other is running.
Init == Setup /\ terminals = 1

Spec == Init /\ [][Next]_vars

\* Several operators: commands run concurrently against the same database.
ConcurrentInit == Setup /\ terminals = MaxRuns

ConcurrentNext == \E r \in Runs : Invoke(r) \/ Step(r) \/ ConcurrentModification(r)

ConcurrentSpec == ConcurrentInit /\ [][ConcurrentNext]_vars

\* --------------------------------------------------------- other commands
\* The values an operator may pass as --depid: omitted, the id of the
\* record's deposit, the id of another deposit.
DepidOptions == {"", DEPID, "depid-2"}

\* Keys of current_app.config['CDS_OPENCAST_QUALITIES'], and the values an
\* operator may pass as the QUALITY argument.
Qualities == {"360p", "720p"}
QualityArguments == {"360p", "4320p"}

\* What the transcoding subsystem may return as the subformats it creates.
CreatedSubformats == {<<>>, <<"360p">>}

\* Lines 54-57 (84-87, 116-126, 216-219): command c starts with its options.
Invoked(r, c, recid_value, depid_value) ==
    /\ Invocable(r)
    /\ command' = [command EXCEPT ![r] = c]
    /\ recid' = [recid EXCEPT ![r] = recid_value]
    /\ depid' = [depid EXCEPT ![r] = depid_value]

\* The command ends with what it printed, or with the exception it raised.
Ends(r, state, printed) ==
    /\ pc' = [pc EXCEPT ![r] = state]
    /\ output' = [output EXCEPT ![r] = printed]

\* MissingOption with the check of the options made after the command has
\* called its collaborator.
MissingOption_AfterCall(r, c) ==
    /\ Invoked(r, c, "", "")
    /\ Ends(r, "failed", <<"ClickException: Missing option \"--recid\" or \"--depid\"">>)
    /\ transcoding' = Append(transcoding, [fn |-> c, id_type |-> "depid",
                                           id_value |-> "", quality |-> ""])
    /\ UNCHANGED <<storage, record, frame, flow, t_index, restarted>>

\* Lines 59-60 (89-90, 128-129, 221-222): neither --recid nor --depid.
MissingOption(r, c) ==
    /\ Invoked(r, c, "", "")
    /\ Ends(r, "failed", <<"ClickException: Missing option \"--recid\" or \"--depid\"">>)
    /\ UNCHANGED <<storage, record, frame, transcoding, flow, t_index, restarted>>

\* Lines 62-63 (92-93, 131-132): value = recid or depid, and its type.
id_value(recid_value, depid_value) ==
    IF recid_value # "" THEN recid_value ELSE depid_value

id_type(recid_value) == IF recid_value # "" THEN "recid" ELSE "depid"

\* A call of a function of cds.modules.maintenance.subformats.
Call(fn, recid_value, depid_value, q) ==
    [fn |-> fn, id_type |-> id_type(recid_value),
     id_value |-> id_value(recid_value, depid_value), quality |-> q]

\* Lines 59-60.
missing_UsageError(r) ==
    /\ Invocable(r)
    /\ MissingOption(r, "missing")

\* Lines 62-74: missing calls create_all_missing_subformats and prints what
\* it returned.
missing(r) ==
    \E recid_value \in RecidOptions, depid_value \in DepidOptions,
       created \in CreatedSubformats :
        /\ recid_value # "" \/ depid_value # ""
        /\ Invoked(r, "missing", recid_value, depid_value)
        /\ transcoding' = Append(transcoding,
               Call("create_all_missing_subformats", recid_value, depid_value, ""))
        /\ Ends(r, "done",
                IF created # <<>>
                THEN <<"Creating the following subformats:", created>>
                ELSE <<"No missing subformats to create.">>)
        /\ UNCHANGED <<storage, record, frame, flow, t_index, restarted>>

\* Lines 89-90.
quality_UsageError(r) ==
    /\ Invocable(r)
    /\ MissingOption(r, "quality")

\* Lines 92-100: the QUALITY argument is not a configured quality.
quality_NotConfigured(r) ==
    \E recid_value \in RecidOptions, depid_value \in DepidOptions,
       q \in QualityArguments :
        /\ recid_value # "" \/ depid_value # ""
        /\ q \notin Qualities
        /\ Invoked(r, "quality", recid_value, depid_value)
        /\ Ends(r, "failed", <<"ClickException: Input quality must be one of", Qualities>>)
        /\ UNCHANGED <<storage, record, frame, transcoding, flow, t_index, restarted>>

\* Lines 92-112: quality calls create_subformat and prints what it returned.
quality(r) ==
    \E recid_value \in RecidOptions, depid_value \in DepidOptions,
       q \in QualityArguments, transcodable \in BOOLEAN :
        /\ recid_value # "" \/ depid_value # ""
        /\ q \in Qualities
        /\ Invoked(r, "quality", recid_value, depid_value)
        /\ transcoding' = Append(transcoding,
               Call("create_subformat", recid_value, depid_value, q))
        /\ Ends(r, "done",
                IF transcodable
                THEN <<"Creating the following subformat:", q>>
                ELSE <<"This subformat cannot be transcoded.">>)
        /\ UNCHANGED <<storage, record, frame, flow, t_index, restarted>>

\* Lines 118-124, 41-43: the operator does not confirm, abort_if_false aborts
\* before the body of the command.
all_Aborted(r) ==
    \E recid_value \in RecidOptions, depid_value \in DepidOptions :
        /\ Invoked(r, "all", recid_value, depid_value)
        /\ Ends(r, "failed", <<"Aborted!">>)
        /\ UNCHANGED <<storage, record, frame, transcoding, flow, t_index, restarted>>

\* Lines 128-129.
all_UsageError(r) ==
    /\ Invocable(r)
    /\ MissingOption(r, "all")

\* Lines 131-139: all calls create_all_subformats and prints what it returned.
all(r) ==
    \E recid_value \in RecidOptions, depid_value \in DepidOptions,
       created \in CreatedSubformats :
        /\ recid_value # "" \/ depid_value # ""
        /\ Invoked(r, "all", recid_value, depid_value)
        /\ transcoding' = Append(transcoding,
               Call("create_all_subformats", recid_value, depid_value, ""))
        /\ Ends(r, "done", <<"Creating the following subformats:", created>>)
        /\ UNCHANGED <<storage, record, frame, flow, t_index, restarted>>

\* Task names, written as the sequence of the words they are made of.
\* 'ExtractFramesTask', the fragment of line 231:
ExtractFramesTask == <<"Extract", "Frames", "Task">>

\* The names a task of a flow may carry: the fragment itself, a name that
\* contains it, a name that shares its first word and its last, and a name
\* that stops short of it.
TaskNames ==
    {ExtractFramesTask,
     <<"Retry", "Extract", "Frames", "Task", "2">>,
     <<"Extract", "Metadata", "Task">>,
     <<"Extract", "Frames">>}

\* Contains as an equality: the name is the fragment.
Contains_Equal(name, fragment) == name = fragment

\* fragment in name (Python's `in` on str): the fragment occurs in the name
\* as a run of consecutive words.
Contains(name, fragment) ==
    \E i \in 1..(Len(name) - Len(fragment) + 1) :
        SubSeq(name, i, i + Len(fragment) - 1) = fragment

\* The flows the workflow engine may hold for a deposit: flow.tasks.
Flows == UNION {[1..n -> TaskNames] : n \in 0..MaxTasks}

\* Lines 221-222.
extract_frames_UsageError(r) ==
    /\ Invocable(r)
    /\ MissingOption(r, "extract_frames")

\* Lines 224-225: the resolver finds no record.
extract_frames_ResolveFails(r) ==
    \E recid_value \in RecidOptions, depid_value \in DepidOptions :
        /\ recid_value # ""
        /\ resolve(pidstore, recid_value) = NoUuid
        /\ Invoked(r, "extract_frames", recid_value, depid_value)
        /\ Ends(r, "failed", <<"PIDDoesNotExistError">>)
        /\ UNCHANGED <<storage, record, frame, transcoding, flow, t_index, restarted>>

\* Lines 224-228: with --recid, depid becomes the id of the record's deposit
\* (line 226); the flow of depid is fetched.
extract_frames_GetFlow(r) ==
    \E recid_value \in RecidOptions, depid_value \in DepidOptions, tasks \in Flows :
        /\ recid_value # "" \/ depid_value # ""
        /\ recid_value # "" => resolve(pidstore, recid_value) # NoUuid
        /\ LET json == records_metadata[resolve(pidstore, recid_value)]
           IN  /\ Invoked(r, "extract_frames", recid_value, depid_value)
               /\ record' = [record EXCEPT ![r] = IF recid_value # "" THEN json ELSE @]
               /\ flow' = [flow EXCEPT ![r] =
                      [deposit_id |-> IF recid_value # "" THEN json["_deposit"].id
                                      ELSE depid_value,
                       tasks |-> tasks]]
        /\ t_index' = [t_index EXCEPT ![r] = 1]
        /\ pc' = [pc EXCEPT ![r] = "tasks"]
        /\ UNCHANGED <<storage, frame, output, transcoding, restarted>>

\* Lines 230-232: one iteration of the loop over flow.tasks.
extract_frames_Task(r) ==
    /\ pc[r] = "tasks"
    /\ t_index[r] <= Len(flow[r].tasks)
    /\ restarted' = [restarted EXCEPT ![r] =
           IF Contains(flow[r].tasks[t_index[r]], ExtractFramesTask)
           THEN Append(@, t_index[r]) ELSE @]
    /\ t_index' = [t_index EXCEPT ![r] = @ + 1]
    /\ UNCHANGED <<storage, pc, locals, depid, transcoding, flow>>

\* Line 233: the loop is over, the session is committed.
extract_frames_Commit(r) ==
    /\ pc[r] = "tasks"
    /\ t_index[r] > Len(flow[r].tasks)
    /\ pc' = [pc EXCEPT ![r] = "done"]
    /\ UNCHANGED <<storage, locals, others>>

\* One invocation of any command of the module, over a database that holds
\* one record with a master video and its slaves.
CliRuns == {r \in Runs : \A q \in Runs : r <= q}

CliFixtures ==
    {f \in Fixtures :
        /\ ~f.drift
        /\ f.draft => f.kind = [k \in Keys |-> IF k = 1 THEN "plain" ELSE "slave"]}

CliInit == (\E f \in CliFixtures : InitFixture(f)) /\ NoRuns /\ terminals = 1

CliInvoke(r) ==
    \/ missing_UsageError(r) \/ missing(r)
    \/ quality_UsageError(r) \/ quality_NotConfigured(r) \/ quality(r)
    \/ all_Aborted(r) \/ all_UsageError(r) \/ all(r)
    \/ extract_frames_UsageError(r) \/ extract_frames_ResolveFails(r)
    \/ extract_frames_GetFlow(r)

CliStep(r) == extract_frames_Task(r) \/ extract_frames_Commit(r)

CliNext == \E r \in CliRuns : Invoke(r) \/ Step(r) \/ CliInvoke(r) \/ CliStep(r)

CliSpec == CliInit /\ [][CliNext]_vars

\* ----------------------------------------------------------------- claims
BucketIds == {b.id : b \in files_bucket}

\* Run r has completed and no later run has been invoked: the state right
\* after a successful reconciliation.
JustDone(r) == pc[r] = "done" /\ \A q \in Runs : q > r => pc[q] = "idle"

\* Run r has ended, in any way, and no later run has been invoked.
JustEnded(r) == Terminated(r) /\ \A q \in Runs : q > r => pc[q] = "idle"

HasTag(v, key) == \E t \in files_objecttags : t.version_id = v /\ t.key = key

\* The slave object versions of a bucket: heads that carry a master tag.
SlavesOf(b) ==
    {o \in query_heads_by_bucket(files_object, b) : HasTag(o.version_id, "master")}

\* The canonical object versions of a bucket: heads marked as master video.
CanonicalOf(b) ==
    {o \in query_heads_by_bucket(files_object, b) :
        \E t \in files_objecttags :
            t.version_id = o.version_id /\ t.key = "context_type" /\ t.value = "master"}

\* The master tag of every slave of bucket b names a canonical object
\* version that lives in b.
SlavesNameCanonicalOf(b) ==
    \A o \in SlavesOf(b) : \A t \in files_objecttags :
        (t.version_id = o.version_id /\ t.key = "master") =>
            /\ \E c \in CanonicalOf(b) : t.value = Str(c.version_id)
            /\ \A x \in files_object : t.value = Str(x.version_id) => x.bucket_id = b

\* C1 as stated: after every successful run, every slave of the new bucket
\* names the canonical object version of the new bucket, and no object
\* version of another bucket.
C1_Original == \A r \in Runs : JustDone(r) => SlavesNameCanonicalOf(new_bucket[r])

\* C1 amended: after every successful run on a record that has a master video
\* file, every slave of the new bucket names the canonical object version of
\* the new bucket, and no object version of another bucket.
C1_SlavesNameNewMaster ==
    \A r \in Runs :
        (JustDone(r) /\ get_master_video_file(record[r]) # None)
            => SlavesNameCanonicalOf(new_bucket[r])

C1_Witness ==
    \E r \in Runs :
        /\ JustDone(r)
        /\ get_master_video_file(record[r]) # None
        /\ Cardinality(SlavesOf(new_bucket[r])) >= 2
        /\ CanonicalOf(new_bucket[r]) # {}

RowsOf(uuid) == {x \in records_buckets : x.record_id = uuid}

\* C2: no entity ever has more than one row in records_buckets; after a
\* successful run the deposit has exactly one row, it references the new
\* bucket, and no row of any entity references the old, removed bucket.
C2_SingleLiveAssociation ==
    /\ \A x, y \in records_buckets : x.record_id = y.record_id => x = y
    /\ \A r \in Runs : JustDone(r) =>
        /\ RowsOf(DEP) = {[record_id |-> DEP, bucket_id |-> new_bucket[r]]}
        /\ \A x \in records_buckets : x.bucket_id # deposit_old_bucket[r]
        /\ deposit_old_bucket[r] \notin BucketIds

C2_Witness ==
    \E r \in Runs :
        /\ JustDone(r)
        /\ RowsOf(DEP) = {[record_id |-> DEP, bucket_id |-> new_bucket[r]]}
        /\ RowsOf(REC) # {}

\* What run r has made durable of each of its effects.
Cloned(r) == new_bucket[r] # None /\ new_bucket[r] \in BucketIds
Repointed(r) == \E x \in records_buckets : x.bucket_id = new_bucket[r]
Released(r) == deposit_old_bucket[r] # None /\ deposit_old_bucket[r] \notin BucketIds
MetadataUpdated(r) ==
    /\ new_bucket[r] # None
    /\ DEP \in DOMAIN records_metadata
    /\ records_metadata[DEP]["_buckets"].deposit = Str(new_bucket[r])
    /\ records_metadata[REC]["_buckets"].deposit = Str(new_bucket[r])

\* C3: when a run has ended, in whatever way, the database shows all of its
\* effects (clone, repoint, release, metadata) or none of them.
C3_AllOrNothing ==
    \A r \in Runs : JustEnded(r) =>
        \/ Cloned(r) /\ Repointed(r) /\ Released(r) /\ MetadataUpdated(r)
        \/ ~Cloned(r) /\ ~Repointed(r) /\ ~Released(r) /\ ~MetadataUpdated(r)

\* The run is past the commit of line 166 and has not ended.
PastRepoint(r) == pc[r] \in {"locate", "loop", "release"}

\* C4: of two runs that are in progress at the same time, at most one has
\* repointed the deposit's row.
C4_NoDoubleRepoint ==
    \A q, r \in Runs : (q # r /\ PastRepoint(q)) => ~PastRepoint(r)

\* C5: a run that fails while resolving its --recid (no record, or a record
\* without deposit) changes no table and leaves nothing in its session.
C5_ResolutionFailureMutatesNothing ==
    [][\A r \in Runs :
          (pc[r] = "idle" /\ pc'[r] = "failed") =>
              /\ UNCHANGED <<files_bucket, files_object, files_objecttags,
                             records_buckets, records_metadata>>
              /\ session'[r] = EmptySession
              /\ new_bucket'[r] = None]_vars

C5_Witness ==
    \E q, r \in Runs :
        /\ pc[q] = "failed" /\ recid[q] = "recid-404"
        /\ pc[r] = "failed" /\ recid[r] = RECID
        /\ output[r] = <<"PIDDoesNotExistError">>

\* Key and file of every head file of a bucket.
Contents(b) == {<<o.key, o.file_id>> : o \in get_by_bucket(files_object, b)}

\* Bucket b holds a complete copy of the record's bucket: the same keys with
\* the same files, heads only, under version ids of its own.
CompleteCopy(b) ==
    /\ b \in BucketIds
    /\ Contents(b) = Contents(FilesBucket(REC))
    /\ \A o \in files_object : o.bucket_id = b => o.is_head /\ o.file_id # None
    /\ \A o, x \in files_object :
           (o.bucket_id = b /\ x.version_id = o.version_id) => x = o

Tables == <<files_bucket, files_object, files_objecttags, records_buckets,
            records_metadata>>

\* C6, in every state: every row of records_buckets references a committed
\* bucket; a new bucket that a row references is a complete copy; and what a
\* session holds is in no table and referenced by no row.
C6_NoPartialCloneVisible ==
    /\ \A x \in records_buckets : x.bucket_id \in BucketIds
    /\ \A r \in Runs : \A x \in records_buckets :
           (x.bucket_id = new_bucket[r] /\ ~Terminated(r)) => CompleteCopy(new_bucket[r])
    /\ \A r \in Runs :
        /\ \A b \in session[r].bucket :
               b.id \notin BucketIds /\ \A x \in records_buckets : x.bucket_id # b.id
        /\ \A o \in session[r].object :
               \A x \in files_object : x.version_id # o.version_id

\* C6: while a run is taking its snapshot, and when the snapshot fails, no
\* table changes (association, old bucket, tags and metadata stay as they
\* were), the failed run's session is dropped, and no partial clone is ever
\* visible or referenced.
C6_SnapshotFailureLeavesNoTrace ==
    /\ []C6_NoPartialCloneVisible
    /\ [][\A r \in Runs :
             (pc[r] \in {"snapshot", "copying"} /\ pc'[r] # "query") =>
                 /\ UNCHANGED Tables
                 /\ (pc'[r] = "failed" =>
                        session'[r] = EmptySession /\ new_bucket'[r] = None)]_vars

\* A snapshot has failed after copying at least one object, and the deposit
\* is where it was.
C6_Witness ==
    \E r \in Runs :
        /\ pc[r] = "failed" /\ output[r] = <<"snapshot failed">>
        /\ Contents(FilesBucket(REC)) # {}
        /\ FilesBucket(DEP) = deposit_old_bucket[r]
        /\ session[r] = EmptySession

\* C7 as stated: a successful run on a record that has slaves and no master
\* video file leaves the slaves' tags as they were copied and prints a
\* warning about the missing master.
C7_MissingCanonicalReported ==
    \A r \in Runs :
        (JustDone(r) /\ get_master_video_file(record[r]) = None
                     /\ SlavesOf(new_bucket[r]) # {}) =>
            /\ \A o \in SlavesOf(new_bucket[r]) : \E src \in SlavesOf(FilesBucket(REC)) :
                   /\ src.key = o.key
                   /\ \A t \in files_objecttags :
                          (t.version_id = src.version_id /\ t.key = "master") =>
                              Tag(o.version_id, "master", t.value) \in files_objecttags
            /\ Len(output[r]) > 3

\* C8: after a successful run the deposit document and the record document
\* both name, as their deposit bucket, the bucket the deposit's row in
\* records_buckets references, which is the new bucket; the record's _deposit
\* equals the deposit's, and the deposit's is what it was.
C8_MetadataMatchesAssociation ==
    \A r \in Runs : JustDone(r) =>
        /\ FilesBucket(DEP) = new_bucket[r]
        /\ records_metadata[DEP]["_buckets"].deposit = Str(FilesBucket(DEP))
        /\ records_metadata[REC]["_buckets"].deposit = Str(FilesBucket(DEP))
        /\ records_metadata[REC]["_deposit"] = records_metadata[DEP]["_deposit"]
        /\ records_metadata[DEP]["_deposit"] = [id |-> DEPID, status |-> "draft"]

C8_Witness ==
    \E r \in Runs :
        /\ JustDone(r)
        /\ records_metadata[REC]["_buckets"].deposit = Str(new_bucket[r])
        /\ records_metadata[REC]["_deposit"].status = "draft"

\* C9: after a successful run the bucket that backed the deposit when the run
\* began is gone with all its object versions, the new bucket exists, and the
\* run returned and printed (old id, new id), two different ids.
C9_OldRemovedPairReturned ==
    \A r \in Runs : JustDone(r) =>
        /\ deposit_old_bucket[r] \notin BucketIds
        /\ \A o \in files_object : o.bucket_id # deposit_old_bucket[r]
        /\ new_bucket[r] \in BucketIds
        /\ result[r] = <<deposit_old_bucket[r], new_bucket[r]>>
        /\ output[r] = <<"Deposit bucket re-created from record bucket.",
                         Str(deposit_old_bucket[r]), Str(new_bucket[r])>>
        /\ deposit_old_bucket[r] # new_bucket[r]

C9_Witness ==
    \E r \in Runs :
        /\ JustDone(r)
        /\ result[r] = <<DepositBucket, new_bucket[r]>>
        /\ DepositBucket \notin BucketIds

\* C10: a run invoked right after a successful run does not fail on the state
\* that run left; when it completes, the two new buckets differ, it removed
\* the bucket the first run created, and the deposit is backed by the second
\* new bucket, a complete copy of the record's bucket.
C10_TwiceInSuccession ==
    \A q, r \in Runs : (r = q + 1 /\ pc[q] = "done") =>
        /\ (pc[r] = "failed" /\ recid[r] = RECID) => output[r] = <<"snapshot failed">>
        /\ JustDone(r) =>
            /\ new_bucket[q] # new_bucket[r]
            /\ deposit_old_bucket[q] # deposit_old_bucket[r]
            /\ deposit_old_bucket[r] = new_bucket[q]
            /\ result[r] = <<new_bucket[q], new_bucket[r]>>
            /\ new_bucket[q] \notin BucketIds
            /\ deposit_old_bucket[q] \notin BucketIds
            /\ FilesBucket(DEP) = new_bucket[r]
            /\ CompleteCopy(new_bucket[r])

C10_Witness ==
    \E q, r \in Runs :
        /\ r = q + 1 /\ pc[q] = "done" /\ JustDone(r)
        /\ Contents(new_bucket[r]) # {}

\* Key and content reference of every head of a bucket, deletion markers
\* (content reference NULL) included.
HeadContents(b) == {<<o.key, o.file_id>> : o \in query_heads_by_bucket(files_object, b)}

\* After a successful run the new bucket exists and is unlocked, holds one
\* head per key and nothing else, and no object version of the old deposit
\* bucket is left.
ClonedAndOldGone(r) ==
    /\ [id |-> new_bucket[r], locked |-> FALSE] \in files_bucket
    /\ \A b \in files_bucket : b.id = new_bucket[r] => ~b.locked
    /\ \A o, x \in files_object :
           (o.bucket_id = new_bucket[r] /\ x.bucket_id = new_bucket[r] /\ o.key = x.key)
               => (o = x /\ o.is_head)
    /\ \A o, x \in files_object :
           (o.bucket_id = new_bucket[r] /\ x.version_id = o.version_id) => x = o
    /\ \A o \in files_object : o.bucket_id # deposit_old_bucket[r]
    /\ deposit_old_bucket[r] = DepositBucket =>
           /\ \A o \in files_object :
                  o.version_id \notin {DraftMasterId, DraftOnlyId} /\ o.key # DraftOnlyKey
           /\ \A t \in files_objecttags : t.version_id \notin {DraftMasterId, DraftOnlyId}

\* Every object version a step adds to files_object carries a version id that
\* no object version carried before the step.
FreshVersionIds ==
    \A o \in files_object' \ files_object :
        \A x \in files_object : x.version_id # o.version_id

\* C11 as stated: after a successful run the keys and contents of the new
\* bucket are those of all the heads of the record's bucket.
C11_Original ==
    \A r \in Runs : JustDone(r) =>
        /\ HeadContents(new_bucket[r]) = HeadContents(FilesBucket(REC))
        /\ ClonedAndOldGone(r)

\* C11 amended: after a successful run the new bucket is a clone of the
\* record's bucket, not of the old deposit bucket: its keys and contents are
\* those of the heads of the record's bucket that are not deletion markers,
\* under version ids that were fresh when they were written; it is unlocked;
\* and every object version of the old deposit bucket is gone.
C11_CloneOfRecordBucket ==
    /\ [](\A r \in Runs : JustDone(r) =>
            /\ Contents(new_bucket[r]) = Contents(FilesBucket(REC))
            /\ HeadContents(new_bucket[r]) = Contents(FilesBucket(REC))
            /\ ClonedAndOldGone(r))
    /\ [][FreshVersionIds]_vars

\* A run has replaced the deposit bucket, which held a file of its own, by a
\* non-empty clone of the record's bucket, whose lock the clone did not keep.
C11_Witness ==
    \E r \in Runs :
        /\ JustDone(r)
        /\ deposit_old_bucket[r] = DepositBucket
        /\ Contents(new_bucket[r]) # {}
        /\ [id |-> FilesBucket(REC), locked |-> TRUE] \in files_bucket
        /\ [id |-> new_bucket[r], locked |-> FALSE] \in files_bucket
        /\ HeadContents(FilesBucket(REC)) # Contents(FilesBucket(REC))

\* The object versions of bucket b that carry a tag with key 'master'.
MasterTagged(objects, tags, b) ==
    {o.version_id : o \in
        {o \in objects : /\ o.bucket_id = b
                         /\ \E t \in tags : t.version_id = o.version_id /\ t.key = "master"}}

ObjectsOf(objects, b) == {o \in objects : o.bucket_id = b}

\* Run r takes a step of the propagation of lines 168-187.
PropagationStep(r) ==
    /\ pc[r] \in {"locate", "loop"}
    /\ pc'[r] \in {"loop", "release"}

\* C12: a step of the propagation leaves the object versions of the new
\* bucket and the set of those that carry a master tag as they were, leaves
\* every tag with another key as it was, leaves one master tag on each slave,
\* and puts none on the canonical object version.
C12_PropagationOnlyRewritesValues ==
    [][\A r \in Runs : PropagationStep(r) =>
          /\ ObjectsOf(files_object', new_bucket[r]) = ObjectsOf(files_object, new_bucket[r])
          /\ files_object' = files_object
          /\ MasterTagged(files_object', files_objecttags', new_bucket[r])
                 = MasterTagged(files_object, files_objecttags, new_bucket[r])
          /\ {t \in files_objecttags' : t.key # "master"}
                 = {t \in files_objecttags : t.key # "master"}
          /\ {t.version_id : t \in {t \in files_objecttags' : t.key = "master"}}
                 = {t.version_id : t \in {t \in files_objecttags : t.key = "master"}}
          /\ \A t, u \in files_objecttags' :
                 (t.key = "master" /\ u.key = "master" /\ t.version_id = u.version_id)
                     => t = u
          /\ \A t \in files_objecttags' :
                 (t.key = "context_type" /\ t.value = "master") =>
                     t.version_id \notin MasterTagged(files_object', files_objecttags',
                                                      new_bucket[r])]_vars

\* The propagation has rewritten the tags of two slaves of a new bucket that
\* also holds an untagged canonical object version.
C12_Witness ==
    \E r \in Runs :
        /\ pc[r] = "release"
        /\ master_deposit_obj[r] # None
        /\ Cardinality(MasterTagged(files_object, files_objecttags, new_bucket[r])) >= 2
        /\ \A v \in MasterTagged(files_object, files_objecttags, new_bucket[r]) :
               Tag(v, "master", Str(master_deposit_obj[r])) \in files_objecttags
        /\ master_deposit_obj[r]
               \notin MasterTagged(files_object, files_objecttags, new_bucket[r])

\* The tags of the object versions of bucket b.
TagsOf(objects, tags, b) ==
    {t \in tags : \E o \in ObjectsOf(objects, b) : o.version_id = t.version_id}

\* The record's bucket: its row, its object versions, their tags, and the
\* record's rows in records_buckets.
PublishedContainer(buckets, objects, tags, rows) ==
    <<{b \in buckets : b.id = RecordBucket}, ObjectsOf(objects, RecordBucket),
      TagsOf(objects, tags, RecordBucket), {x \in rows : x.record_id = REC}>>

\* C13: the record is always backed by its locked bucket, and no step of any
\* run, whether it goes on, completes, fails or crashes, changes that bucket's
\* row, its object versions, their tags or the record's row in
\* records_buckets; also when the deposit is backed by the same bucket.
C13_PublishedContainerUntouched ==
    /\ [](/\ RowsOf(REC) = {[record_id |-> REC, bucket_id |-> RecordBucket]}
          /\ [id |-> RecordBucket, locked |-> TRUE] \in files_bucket)
    /\ [][PublishedContainer(files_bucket', files_object', files_objecttags',
                             records_buckets')
            = PublishedContainer(files_bucket, files_object, files_objecttags,
                                 records_buckets)]_vars

\* A run on a deposit that shares the record's bucket has committed its
\* snapshot and failed at line 163, and the record's bucket still holds files.
C13_Witness ==
    \E r \in Runs :
        /\ JustEnded(r) /\ pc[r] = "failed"
        /\ output[r] = <<"MultipleResultsFound">>
        /\ deposit_old_bucket[r] = RecordBucket
        /\ Cloned(r)
        /\ FilesBucket(DEP) = RecordBucket
        /\ Contents(RecordBucket) # {}

\* Run r is invoked in this step.
Invocation(r) == pc[r] = "idle" /\ pc'[r] # "idle"

\* What the usage error of command c says.
UsageMessage(c) ==
    IF c = "fix_bucket_conflict"
    THEN <<"ClickException: Missing option \"--recid\"">>
    ELSE <<"ClickException: Missing option \"--recid\" or \"--depid\"">>

\* The invocation of run r ends in this step with a usage error, or at the
\* confirmation prompt of `recreate all`, and nothing else has happened: no
\* table, no session, no record loaded, no call of the transcoding subsystem
\* or of the workflow engine.
RefusedWithoutEffect(r) ==
    /\ pc'[r] = "failed"
    /\ \/ output'[r] = UsageMessage(command'[r])
       \/ command'[r] = "all" /\ output'[r] = <<"Aborted!">>
    /\ UNCHANGED <<files_bucket, files_object, files_objecttags, records_buckets,
                   records_metadata, pidstore, session, record, frame, transcoding,
                   flow, t_index, restarted>>

FrameExtractionNames ==
    {<<"Extract", "Frames", "Task">>, <<"Retry", "Extract", "Frames", "Task", "2">>}

\* The draft extract_frames is to act on: with --recid, the deposit of the
\* record; otherwise the deposit named by --depid.
GivenDraft(r) ==
    IF recid[r] # ""
    THEN records_metadata[resolve(pidstore, recid[r])]["_deposit"].id
    ELSE depid[r]

\* C15: extract_frames fetches the flow of the given draft (with --recid, of
\* the record's deposit); the restarts it has requested are, in flow order
\* and once each, the tasks it has looked at whose name contains
\* 'ExtractFramesTask'; when it is done it has looked at every task; and no
\* step of it writes a table, a session, the transcoding subsystem or the
\* flow and restarts of another invocation.
C15_RestartsFrameExtractionTasks ==
    /\ [](\A r \in Runs : (command[r] = "extract_frames" /\ flow[r] # <<>>) =>
            /\ flow[r].deposit_id = GivenDraft(r)
            /\ t_index[r] \in 1..(Len(flow[r].tasks) + 1)
            /\ pc[r] = "done" => t_index[r] = Len(flow[r].tasks) + 1
            /\ \A i, j \in 1..Len(restarted[r]) :
                   i < j => restarted[r][i] < restarted[r][j]
            /\ {restarted[r][i] : i \in 1..Len(restarted[r])}
                   = {i \in 1..(t_index[r] - 1) :
                         flow[r].tasks[i] \in FrameExtractionNames})
    /\ [][\A r \in Runs :
             (/\ command'[r] = "extract_frames"
              /\ pc'[r] # pc[r] \/ t_index'[r] # t_index[r]) =>
             /\ UNCHANGED <<files_bucket, files_object, files_objecttags,
                            records_buckets, records_metadata, pidstore, session,
                            transcoding>>
             /\ \A q \in Runs : q # r =>
                    flow'[q] = flow[q] /\ restarted'[q] = restarted[q]]_vars

\* extract_frames, given a record id and the id of another deposit, has gone
\* through the flow of the record's deposit and restarted its second task,
\* whose name contains the fragment, and not its first.
C15_Witness ==
    \E r \in Runs :
        /\ pc[r] = "done" /\ command[r] = "extract_frames"
        /\ recid[r] = RECID /\ depid[r] = "depid-2"
        /\ flow[r] = [deposit_id |-> DEPID,
                      tasks |-> <<<<"Extract", "Metadata", "Task">>,
                                  <<"Retry", "Extract", "Frames", "Task", "2">>>>]
        /\ restarted[r] = <<2>>

\* The slaves of the new bucket of run r whose master tag names the master
\* object version of that bucket, and those whose tag names something else.
Rewritten(r) ==
    {o \in SlavesOf(new_bucket[r]) :
        \E c \in CanonicalOf(new_bucket[r]) :
            Tag(o.version_id, "master", Str(c.version_id)) \in files_objecttags}

NotRewritten(r) == SlavesOf(new_bucket[r]) \ Rewritten(r)

\* C16: every step that rewrites a master tag is taken when the deposit's row
\* already references the new bucket in records_buckets, rewrites the tag of
\* one slave and commits it, nothing being left in the session; and a crash
\* changes no table, so what was committed before it stays.
C16_PropagationCommittedPerSlave ==
    [][\A r \in Runs :
          /\ (pc[r] = "loop" /\ files_objecttags' # files_objecttags) =>
                 /\ RowsOf(DEP) = {[record_id |-> DEP, bucket_id |-> new_bucket[r]]}
                 /\ Cardinality(files_objecttags' \ files_objecttags) = 1
                 /\ Cardinality(files_objecttags \ files_objecttags') = 1
                 /\ \A t \in files_objecttags' \ files_objecttags :
                        /\ t = Tag(t.version_id, "master", Str(master_deposit_obj[r]))
                        /\ \E o \in SlavesOf(new_bucket[r]) : o.version_id = t.version_id
                 /\ session'[r] = EmptySession
                 /\ UNCHANGED <<files_bucket, files_object, records_buckets,
                                records_metadata>>
          /\ (pc[r] # "crashed" /\ pc'[r] = "crashed") =>
                 UNCHANGED <<files_bucket, files_object, files_objecttags,
                             records_buckets, records_metadata>>]_vars

\* A run has crashed in the loop of lines 175-187: the deposit's row
\* references the new bucket, the old bucket is still there, one slave of the
\* new bucket names the new master and another does not.
C16_Witness ==
    \E r \in Runs :
        /\ pc[r] = "crashed"
        /\ RowsOf(DEP) = {[record_id |-> DEP, bucket_id |-> new_bucket[r]]}
        /\ deposit_old_bucket[r] \in BucketIds
        /\ Rewritten(r) # {}
        /\ NotRewritten(r) # {}

\* What a step makes durable: the repoint of a row of records_buckets, the
\* rewriting of the master tag of an existing object version, the removal of
\* a bucket, the update of a metadata document.
RepointDurable == records_buckets' # records_buckets

TagUpdateDurable ==
    \E t \in files_objecttags' \ files_objecttags :
        \E o \in files_object : o.version_id = t.version_id

ReleaseDurable == \E b \in files_bucket : \A c \in files_bucket' : c.id # b.id

MetadataDurable == records_metadata' # records_metadata

\* The metadata documents name bucket b as the deposit's bucket.
MetadataNames(metadata, b) ==
    \E u \in DOMAIN metadata : metadata[u]["_buckets"].deposit = Str(b)

\* C17 as stated: repoint, tag updates, release and metadata update become
\* durable in steps of their own, in that order: a step that updates the
\* metadata finds the old bucket already removed.
C17_Original ==
    [][/\ Cardinality({i \in 1..4 :
                          \/ i = 1 /\ RepointDurable
                          \/ i = 2 /\ TagUpdateDurable
                          \/ i = 3 /\ ReleaseDurable
                          \/ i = 4 /\ MetadataDurable}) <= 1
       /\ \A r \in Runs :
              /\ (pc[r] = "loop" /\ TagUpdateDurable) => Repointed(r)
              /\ (pc[r] = "release" /\ ReleaseDurable) => slaves[r] = {}
              /\ (pc[r] = "release" /\ MetadataDurable) => Released(r)]_vars

\* C17 amended: the repoint and each tag update become durable in steps of
\* their own, the repoint first; the removal of the old bucket and the update
\* of both metadata documents become durable in one and the same step, the
\* last one; so whenever a step removes a bucket, no document names that
\* bucket after the step and both name the new one, and a crash never removes
\* a bucket.
C17_ReleaseCommittedWithMetadata ==
    [][/\ Cardinality({i \in 1..3 :
                          \/ i = 1 /\ RepointDurable
                          \/ i = 2 /\ TagUpdateDurable
                          \/ i = 3 /\ (ReleaseDurable \/ MetadataDurable)}) <= 1
       /\ ReleaseDurable <=> MetadataDurable
       /\ \A r \in Runs :
              /\ (pc[r] = "loop" /\ TagUpdateDurable) => Repointed(r)
              /\ (pc[r] # "crashed" /\ pc'[r] = "crashed") => ~ReleaseDurable
              /\ (pc[r] = "release" /\ ReleaseDurable) =>
                     /\ slaves[r] = {}
                     /\ Repointed(r)
                     /\ pc'[r] = "done"
                     /\ deposit_old_bucket[r] \notin {b.id : b \in files_bucket'}
                     /\ ~MetadataNames(records_metadata', deposit_old_bucket[r])
                     /\ records_metadata'[DEP]["_buckets"].deposit = Str(new_bucket[r])
                     /\ records_metadata'[REC]["_buckets"].deposit = Str(new_bucket[r])]_vars

\* A run has crashed between the last tag update and line 199: the repoint
\* and the tags are durable, the old bucket is still there and the documents
\* still name it.
C17_Witness ==
    \E r \in Runs :
        /\ pc[r] = "crashed"
        /\ RowsOf(DEP) = {[record_id |-> DEP, bucket_id |-> new_bucket[r]]}
        /\ Rewritten(r) # {} /\ NotRewritten(r) = {}
        /\ deposit_old_bucket[r] \in BucketIds
        /\ MetadataNames(records_metadata, deposit_old_bucket[r])
        /\ ~MetadataNames(records_metadata, new_bucket[r])

\* C18: in every state the bucket the deposit's row references exists, and
\* when it is the new bucket of a run it is a complete copy of the record's
\* bucket; and a step removes a bucket only when no row references it and the
\* deposit's row references the complete new bucket of the run that removes.
C18_DepositBucketAlwaysExists ==
    /\ [](\A x \in RowsOf(DEP) :
            /\ x.bucket_id \in BucketIds
            /\ \A r \in Runs : x.bucket_id = new_bucket[r] => CompleteCopy(new_bucket[r]))
    /\ [][\A b \in files_bucket :
             (\A c \in files_bucket' : c.id # b.id) =>
                 /\ \A x \in records_buckets : x.bucket_id # b.id
                 /\ \E r \in Runs :
                        /\ pc[r] = "release" /\ b.id = deposit_old_bucket[r]
                        /\ RowsOf(DEP) = {[record_id |-> DEP, bucket_id |-> new_bucket[r]]}
                        /\ CompleteCopy(new_bucket[r])
                        /\ new_bucket[r] \in {c.id : c \in files_bucket'}]_vars

\* A run has crashed between the commit of its snapshot and the repoint: the
\* deposit's row references the old bucket, which still holds its files.
C18_Witness ==
    \E r \in Runs :
        /\ pc[r] = "crashed"
        /\ Cloned(r) /\ ~Repointed(r)
        /\ RowsOf(DEP) = {[record_id |-> DEP, bucket_id |-> deposit_old_bucket[r]]}
        /\ deposit_old_bucket[r] \in BucketIds
        /\ Contents(deposit_old_bucket[r]) # {}

\* The rows of records_buckets that reference bucket b.
Referencing(b) == {x \in records_buckets : x.bucket_id = b}

\* C19: a run that leaves line 161-163 goes on only when exactly one row
\* references the deposit's old bucket, and with that row; otherwise it ends
\* there and the step changes no table. records_buckets changes only in the
\* repoint of a run, and the change is that the one row that referenced the
\* run's old bucket references its new bucket, every other row being left.
C19_RepointByOldBucketId ==
    [][/\ \A r \in Runs : (pc[r] = "query" /\ pc'[r] # "query") =>
              IF Cardinality(Referencing(deposit_old_bucket[r])) = 1
              THEN \/ /\ pc'[r] = "repoint"
                      /\ Referencing(deposit_old_bucket[r]) = {rb'[r]}
                      /\ UNCHANGED Tables
                   \/ pc'[r] = "crashed" /\ UNCHANGED Tables
              ELSE /\ pc'[r] \in {"failed", "crashed"}
                   /\ UNCHANGED Tables
       /\ records_buckets' # records_buckets =>
              \E r \in Runs :
                  /\ pc[r] = "repoint" /\ pc'[r] = "locate"
                  /\ Referencing(deposit_old_bucket[r]) = {rb[r]}
                  /\ records_buckets' =
                         (records_buckets \ {rb[r]})
                         \cup {[record_id |-> rb[r].record_id,
                                bucket_id |-> new_bucket[r]]}
                  /\ UNCHANGED <<files_bucket, files_object, files_objecttags,
                                 records_metadata>>]_vars

\* A run has failed at line 163 because no row references the bucket it read
\* at line 156 any more: its snapshot is committed and referenced by no row.
C19_Witness ==
    \E r \in Runs :
        /\ pc[r] = "failed" /\ output[r] = <<"NoResultFound">>
        /\ Cloned(r) /\ ~Repointed(r)
        /\ Referencing(deposit_old_bucket[r]) = {}
        /\ RowsOf(DEP) # {}

====
